---- MODULE Spec2Model ----
(***************************************************************************)
(* Model of fetch_wb_fbw_supply_goods.py: one run of main() reads the      *)
(* supply keys, fetches the goods of every key page by page with retries,  *)
(* and then refreshes the destination table (delete, then batched insert). *)
(*                                                                         *)
(* Encodings.  Strings that the code takes apart (wb_key, the environment  *)
(* values given to int()) are tuples of one-character strings.  Python's   *)
(* None is the value None below.  Times are whole days, sleeps are tenths  *)
(* of a second.                                                            *)
(***************************************************************************)
EXTENDS Integers, Sequences, FiniteSets, TLC

\* ------------------------------------------------------------------ bounds
\* The store answers the key query with at most MaxKeys rows.
MaxKeys == 2
\* A shipment has fewer than MaxPages * limit goods rows.
MaxPages == 2
\* The script is started at most MaxRuns times (specification SpecRerun).
MaxRuns == 2
MaxRaw == 2

\* ------------------------------------------------------- program constants
\* Page size of the goods endpoint (limit, offset = 1000, 0).
limit == 1000
\* Rows per insert call: chunked(collected, 500).
BatchSize == 500
\* backoffs = [0, 2, 5], seconds slept before attempt 1, 2, 3 of a page.
backoffs == <<0, 2, 5>>
\* The day datetime.now(timezone.utc) falls on.
Now == 10

None == 0 - 1

Min(a, b) == IF a < b THEN a ELSE b
Max(a, b) == IF a > b THEN a ELSE b

\* ------------------------------------------------------------ int(string)
DigitChars == <<"0", "1", "2", "3", "4", "5", "6", "7", "8", "9">>

IsDigit(c) == \E n \in 1..10 : DigitChars[n] = c

DigitVal(c) == (CHOOSE n \in 1..10 : DigitChars[n] = c) - 1

RECURSIVE DigitsValue(_)
DigitsValue(s) ==
  IF s = <<>> THEN 0
  ELSE 10 * DigitsValue(SubSeq(s, 1, Len(s) - 1)) + DigitVal(s[Len(s)])

\* The unsigned part of a numeral: s without a leading sign.
Unsigned(s) == IF s /= <<>> /\ s[1] \in {"-", "+"} THEN Tail(s) ELSE s

\* int(s) succeeds: an optional sign followed by one or more digits.
IsInt(s) == /\ Unsigned(s) /= <<>>
            /\ \A i \in 1..Len(Unsigned(s)) : IsDigit(Unsigned(s)[i])

\* int(s) for a string on which it succeeds.
ToInt(s) == IF s /= <<>> /\ s[1] = "-" THEN 0 - DigitsValue(Unsigned(s))
            ELSE DigitsValue(Unsigned(s))

StartsWith(s, p) == Len(s) >= Len(p) /\ SubSeq(s, 1, Len(p)) = p

\* ------------------------------------------------------------ parse_wb_key
\* Faulty variant: every prefix other than "S:" is taken for a preorder.
OtherPrefixIsPreorderMut(wb_key) ==
  IF StartsWith(wb_key, <<"S", ":">>) /\ IsInt(SubSeq(wb_key, 3, Len(wb_key)))
    THEN [exc |-> FALSE, is_preorder |-> FALSE,
          id_value |-> ToInt(SubSeq(wb_key, 3, Len(wb_key)))]
  ELSE IF IsInt(SubSeq(wb_key, 3, Len(wb_key)))
    THEN [exc |-> FALSE, is_preorder |-> TRUE,
          id_value |-> ToInt(SubSeq(wb_key, 3, Len(wb_key)))]
  ELSE [exc |-> TRUE, is_preorder |-> FALSE, id_value |-> None]

\* [exc |-> TRUE] when parse_wb_key raises (ValueError for a bad prefix or a
\* non-numeric id), else the pair (is_preorder, id_int).
parse_wb_key(wb_key) ==
  IF StartsWith(wb_key, <<"S", ":">>) THEN
    IF IsInt(SubSeq(wb_key, 3, Len(wb_key)))
      THEN [exc |-> FALSE, is_preorder |-> FALSE,
            id_value |-> ToInt(SubSeq(wb_key, 3, Len(wb_key)))]
      ELSE [exc |-> TRUE, is_preorder |-> FALSE, id_value |-> None]
  ELSE IF StartsWith(wb_key, <<"P", ":">>) THEN
    IF IsInt(SubSeq(wb_key, 3, Len(wb_key)))
      THEN [exc |-> FALSE, is_preorder |-> TRUE,
            id_value |-> ToInt(SubSeq(wb_key, 3, Len(wb_key)))]
      ELSE [exc |-> TRUE, is_preorder |-> FALSE, id_value |-> None]
  ELSE [exc |-> TRUE, is_preorder |-> FALSE, id_value |-> None]

\* --------------------------------------------------------- normalize_goods
\* r.get(f): the field's value, None when the raw object omits it.
Get(r, f) == IF f \in DOMAIN r THEN r[f] ELSE None

\* Faulty variant: the lower-case spelling techsize is not looked at.
TechSizeOnlyMut(wb_key, is_preorder, supply_id, preorder_id, r) ==
  [wb_key |-> wb_key,
   is_preorder |-> is_preorder,
   supply_id |-> supply_id,
   preorder_id |-> preorder_id,
   barcode |-> Get(r, "barcode"),
   vendor_code |-> Get(r, "vendorCode"),
   nm_id |-> Get(r, "nmID"),
   need_kiz |-> Get(r, "needKiz"),
   tnved |-> Get(r, "tnved"),
   tech_size |-> Get(r, "techSize"),
   color |-> Get(r, "color"),
   supplier_box_amount |-> Get(r, "supplierBoxAmount"),
   quantity |-> Get(r, "quantity"),
   ready_for_sale_quantity |-> Get(r, "readyForSaleQuantity"),
   accepted_quantity |-> Get(r, "acceptedQuantity"),
   unloading_quantity |-> Get(r, "unloadingQuantity")]

\* One row of normalize_goods: the key's columns, then r.get of each field.
NormalizeRow(wb_key, is_preorder, supply_id, preorder_id, r) ==
  [wb_key |-> wb_key,
   is_preorder |-> is_preorder,
   supply_id |-> supply_id,
   preorder_id |-> preorder_id,
   barcode |-> Get(r, "barcode"),
   vendor_code |-> Get(r, "vendorCode"),
   nm_id |-> Get(r, "nmID"),
   need_kiz |-> Get(r, "needKiz"),
   tnved |-> Get(r, "tnved"),
   tech_size |-> IF "techSize" \in DOMAIN r THEN r["techSize"]
                 ELSE Get(r, "techsize"),
   color |-> Get(r, "color"),
   supplier_box_amount |-> Get(r, "supplierBoxAmount"),
   quantity |-> Get(r, "quantity"),
   ready_for_sale_quantity |-> Get(r, "readyForSaleQuantity"),
   accepted_quantity |-> Get(r, "acceptedQuantity"),
   unloading_quantity |-> Get(r, "unloadingQuantity")]

\* Faulty variant: supply_id and preorder_id change places.
SwappedIdsMut(wb_key, is_preorder, supply_id, preorder_id, rows) ==
  [i \in 1..Len(rows) |->
     NormalizeRow(wb_key, is_preorder, preorder_id, supply_id, rows[i])]

normalize_goods(wb_key, is_preorder, supply_id, preorder_id, rows) ==
  [i \in 1..Len(rows) |->
     NormalizeRow(wb_key, is_preorder, supply_id, preorder_id, rows[i])]

\* ------------------------------------------------------- key selection
\* Faulty variant: a key without updated_date is kept.
KeepMissingMut(k, cutoff_dt) ==
  CASE k.updated_date.kind \in {"null", "empty"} -> TRUE
    [] k.updated_date.kind = "iso" -> k.updated_date.day >= cutoff_dt
    [] OTHER -> TRUE

\* updated_date of a key row: [kind, day] with kind
\*   "null"    the column is NULL            "empty"   the empty string
\*   "iso"     an ISO timestamp with offset, on day `day`
\*   "naive"   an ISO timestamp without offset (comparing it with the aware
\*             cutoff raises TypeError)
\*   "garbage" a string datetime.fromisoformat rejects (ValueError)
\* KeepKey is the body of the loop over keys in the local re-filter.
KeepKey(k, cutoff_dt) ==
  CASE k.updated_date.kind \in {"null", "empty"} -> FALSE
    [] k.updated_date.kind = "iso" -> k.updated_date.day >= cutoff_dt
    [] OTHER -> TRUE

\* The client-side re-filter: skipped when GOODS_UPDATED_DAYS is empty or
\* int() rejects it.
LocalFilter(rows, days) ==
  IF days /= <<>> /\ IsInt(days)
    THEN SelectSeq(rows, LAMBDA k : KeepKey(k, Now - ToInt(days)))
    ELSE rows

\* Faulty variant: the slice keeps one key more.
SliceOneMoreMut(s, n) ==
  IF n >= 0 THEN SubSeq(s, 1, Min(n + 1, Len(s)))
  ELSE SubSeq(s, 1, Max(Len(s) + n, 0))

\* keys[:n] of Python, n of either sign.
Slice(s, n) ==
  IF n >= 0 THEN SubSeq(s, 1, Min(n, Len(s)))
  ELSE SubSeq(s, 1, Max(Len(s) + n, 0))

\* keys after the MAX_KEYS cap: untouched when MAX_KEYS is empty or not an
\* integer.
CapKeysOf(rows, maxEnv) ==
  IF maxEnv /= <<>> /\ IsInt(maxEnv) THEN Slice(rows, ToInt(maxEnv)) ELSE rows


\* ------------------------------------------------------------------ state
VARIABLES
  GOODS_UPDATED_DAYS,  \* environment: "" or the day count, as typed
  MAX_KEYS_ENV,        \* environment: "" or the cap, as typed
  REQUEST_SLEEP_SEC,   \* environment: pause between requests, in 0.1 s
  FULL_REFRESH,        \* the documented full-refresh flag; the script reads
                       \* no such setting
  src_rows,            \* resp.data: the rows the store answers the query with
  table,               \* the destination table (fbw_supply_goods)
  pc,                  \* position of main()
  exitCode,            \* None while running, then the process exit code
  runs,                \* how many times the script has been started
  keys, processed, errors, collected, goods,   \* locals of main()
  id_value, is_preorder, offset, attempt, out, \* fetch_goods_for_supply
  chunk_i, inserted,                           \* the insert loop
  \* history, read by no action's guard:
  table0,              \* the destination as it was when the run started
  lastReq,             \* the most recent HTTP request and its status
  sleepSince,          \* time slept since that request, in 0.1 s
  deletes, inserts,    \* delete / insert calls issued by this run
  pageLog,             \* (offset, size) of the pages of this fetch
  outcome              \* how the last processed key ended

config == <<GOODS_UPDATED_DAYS, MAX_KEYS_ENV, REQUEST_SLEEP_SEC, FULL_REFRESH>>
mainLocals == <<keys, processed, errors, collected, goods>>
fetchLocals == <<id_value, is_preorder, offset, attempt, out>>
insertLocals == <<chunk_i, inserted>>
history == <<table0, lastReq, sleepSince, deletes, inserts, pageLog, outcome>>

vars == <<config, src_rows, table, pc, exitCode, runs, mainLocals,
          fetchLocals, insertLocals, history>>

total == Len(keys)

NoReq == [k |-> 0, id_value |-> None, is_preorder |-> FALSE, limit |-> 0,
          offset |-> 0, attempt |-> 0, wait |-> 0, slept |-> 0, status |-> 0,
          kind |-> "-", n |-> 0]

\* ----------------------------------------------------------------- inputs
\* The i-th smallest member of a set of numbers.
Nth(I, i) == CHOOSE x \in I : Cardinality({y \in I : y < x}) = i - 1

\* The subsequences of s of at most n elements: what a query may return of
\* a table whose rows, in the store's order, are s.
SubSeqsUpTo(s, n) ==
  {[i \in 1..Cardinality(I) |-> s[Nth(I, i)]] :
     I \in {J \in SUBSET (1..Len(s)) : Cardinality(J) <= n}}

Iso(d) == [kind |-> "iso", day |-> d]
NoDay(kind) == [kind |-> kind, day |-> None]

KeyRow(wb_key, supply_id, preorder_id, updated_date) ==
  [wb_key |-> wb_key, supply_id |-> supply_id, preorder_id |-> preorder_id,
   updated_date |-> updated_date]

\* Key rows of the full runs (wb_key is unique in the supplies table): a
\* supply, an unknown prefix, a supply whose id is no number, a preorder.
RunKeyRows ==
  <<KeyRow(<<"S", ":", "1">>, 1, None, Iso(9)),
    KeyRow(<<"X", ":", "3">>, 3, None, Iso(9)),
    KeyRow(<<"S", ":", "a">>, 4, None, Iso(9)),
    KeyRow(<<"P", ":", "2">>, None, 2, Iso(9))>>

\* Key rows of the key-selection runs: every shape of updated_date, with the
\* cutoff of a 7-day filter on day 3.
DateKeyRows ==
  <<KeyRow(<<"S", ":", "1">>, 1, None, NoDay("null")),
    KeyRow(<<"S", ":", "2">>, 2, None, Iso(9)),
    KeyRow(<<"S", ":", "3">>, 3, None, Iso(2)),
    KeyRow(<<"S", ":", "4">>, 4, None, NoDay("empty")),
    KeyRow(<<"P", ":", "5">>, None, 5, Iso(3)),
    KeyRow(<<"P", ":", "6">>, None, 6, NoDay("naive")),
    KeyRow(<<"S", ":", "7">>, 7, None, NoDay("garbage"))>>

\* A row left in the destination by an earlier run, of a shipment that is in
\* no key row above.
StaleRow ==
  NormalizeRow(<<"S", ":", "9">>, FALSE, 9, None,
               [barcode |-> 1, quantity |-> 7, techSize |-> 40])

\* Raw objects of every shape normalize_goods tells apart: each of barcode,
\* quantity, techSize and techsize is there or not, and a techSize that is
\* there is a size or null.
RawFields == {"barcode", "quantity", "techSize", "techsize"}

RawValue(f, size) ==
  CASE f = "barcode" -> 7
    [] f = "quantity" -> 3
    [] f = "techSize" -> size
    [] f = "techsize" -> 41

RawObjects ==
  {[f \in D |-> RawValue(f, 40)] : D \in SUBSET RawFields} \cup
  {[f \in D |-> RawValue(f, None)] : D \in SUBSET RawFields}

\* The lists of at most n members of S.
SeqsUpTo(S, n) == UNION {[1..m -> S] : m \in 0..n}

\* The body of a goods page: n raw objects, numbered on from the offset.
\* The quantity the API reports changes from one run to the next: in the
\* r-th run it is r.
Page(off, n, r) ==
  [i \in 1..n |-> [barcode |-> off + i, quantity |-> r, techsize |-> 40]]

\* What the API may answer to a page request.  kind is "list" / "nonlist"
\* (JSON that is no array) / "badjson" (resp.json() raises) for a 200, "exc"
\* when requests.get itself raises, "-" otherwise.  A page holds at most
\* limit rows, and the last page the bound allows is a short one.
Responses(off) ==
  {[status |-> 200, kind |-> "list", n |-> 0],
   [status |-> 200, kind |-> "list", n |-> 1],
   [status |-> 200, kind |-> "nonlist", n |-> 0],
   [status |-> 200, kind |-> "badjson", n |-> 0],
   [status |-> 404, kind |-> "-", n |-> 0],
   [status |-> 410, kind |-> "-", n |-> 0],
   [status |-> 429, kind |-> "-", n |-> 0],
   [status |-> 500, kind |-> "-", n |-> 0],
   [status |-> 0, kind |-> "exc", n |-> 0]}
  \cup (IF off + limit < MaxPages * limit
          THEN {[status |-> 200, kind |-> "list", n |-> limit]}
          ELSE {})

\* ------------------------------------------------------------------- Init
\* The state main() starts in, for the given environment and store answer.
StartRun ==
  /\ pc = "start"
  /\ exitCode = None
  /\ keys = <<>> /\ processed = 0 /\ errors = 0
  /\ collected = <<>> /\ goods = <<>>
  /\ id_value = None /\ is_preorder = FALSE
  /\ offset = 0 /\ attempt = 0 /\ out = <<>>
  /\ chunk_i = 0 /\ inserted = 0
  /\ table0 = table
  /\ lastReq = NoReq /\ sleepSince = 0
  /\ deletes = 0 /\ inserts = 0
  /\ pageLog = <<>> /\ outcome = "none"

Init ==
  /\ GOODS_UPDATED_DAYS = <<>>
  /\ MAX_KEYS_ENV = <<>>
  /\ REQUEST_SLEEP_SEC \in {0, 21}
  /\ FULL_REFRESH = TRUE
  /\ src_rows \in SubSeqsUpTo(RunKeyRows, MaxKeys)
  /\ table = <<StaleRow>>
  /\ runs = 1
  /\ StartRun

\* One run with the pause between requests set, on a supply, a key of
\* unknown prefix and a preorder.
InitFair ==
  /\ GOODS_UPDATED_DAYS = <<>>
  /\ MAX_KEYS_ENV = <<>>
  /\ REQUEST_SLEEP_SEC = 21
  /\ FULL_REFRESH = TRUE
  /\ src_rows \in SubSeqsUpTo(<<RunKeyRows[1], RunKeyRows[2], RunKeyRows[4]>>,
                              MaxKeys)
  /\ table = <<StaleRow>>
  /\ runs = 1
  /\ StartRun

InitKeys ==
  /\ GOODS_UPDATED_DAYS \in {<<>>, <<"7">>, <<"x">>}
  /\ MAX_KEYS_ENV \in {<<>>, <<"1">>, <<"0">>, <<"-", "1">>, <<"x">>}
  /\ REQUEST_SLEEP_SEC = 21
  /\ FULL_REFRESH = TRUE
  /\ src_rows \in SubSeqsUpTo(DateKeyRows, MaxKeys)
  /\ table = <<StaleRow>>
  /\ runs = 1
  /\ StartRun

InitRerun ==
  /\ GOODS_UPDATED_DAYS = <<>>
  /\ MAX_KEYS_ENV \in {<<>>, <<"0">>}
  /\ REQUEST_SLEEP_SEC = 21
  /\ FULL_REFRESH \in BOOLEAN
  /\ src_rows \in {<<>>, <<RunKeyRows[1]>>}
  /\ table = <<StaleRow>>
  /\ runs = 1
  /\ StartRun

\* normalize_goods is about to be called, for the supply S:1, on a list of
\* raw objects.
InitNormalize ==
  /\ GOODS_UPDATED_DAYS = <<>>
  /\ MAX_KEYS_ENV = <<>>
  /\ REQUEST_SLEEP_SEC = 21
  /\ FULL_REFRESH = TRUE
  /\ src_rows = <<RunKeyRows[1]>>
  /\ table = <<StaleRow>>
  /\ runs = 1
  /\ pc = "normalize"
  /\ exitCode = None
  /\ keys = src_rows /\ processed = 0 /\ errors = 0
  /\ collected = <<>>
  /\ goods \in SeqsUpTo(RawObjects, MaxRaw)
  /\ id_value = 1 /\ is_preorder = FALSE
  /\ offset = 0 /\ attempt = 1 /\ out = goods
  /\ chunk_i = 0 /\ inserted = 0
  /\ table0 = table
  /\ lastReq = NoReq /\ sleepSince = 0
  /\ deletes = 0 /\ inserts = 0
  /\ pageLog = <<>> /\ outcome = "none"

\* ---------------------------------------------------------------- actions
\* main(), "1) keys": the query's answer, re-filtered locally.
ReadKeys ==
  /\ pc = "start"
  /\ keys' = LocalFilter(src_rows, GOODS_UPDATED_DAYS)
  /\ pc' = "cap"
  /\ UNCHANGED <<config, src_rows, table, exitCode, runs, processed, errors,
                 collected, goods, fetchLocals, insertLocals, history>>

\* Faulty variants: the early return depends on the full-refresh flag.
SkipOnlyIncrementalMut(n) == n = 0 /\ ~FULL_REFRESH

SkipOnlyFullMut(n) == n = 0 /\ FULL_REFRESH

\* total == 0: "No supplies to process. Skipping refresh." and return.
SkipRefresh(n) == n = 0

\* main(), the MAX_KEYS cap and the early return on an empty key list.
\* Past the early return, "for k in keys" over no key would fall through to
\* the refresh.
CapKeys ==
  /\ pc = "cap"
  /\ keys' = CapKeysOf(keys, MAX_KEYS_ENV)
  /\ IF SkipRefresh(Len(keys'))
       THEN pc' = "done" /\ exitCode' = 0
       ELSE /\ pc' = (IF Len(keys') = 0 THEN "write" ELSE "loop")
            /\ exitCode' = exitCode
  /\ UNCHANGED <<config, src_rows, table, runs, processed, errors,
                 collected, goods, fetchLocals, insertLocals, history>>


\* Faulty variant: the refresh is entered after every key (the write phase
\* indented into the loop).
EndKeyWritesMut(sleptSoFar) ==
  /\ processed' = processed + 1
  /\ sleepSince' = sleptSoFar + (IF REQUEST_SLEEP_SEC > 0
                                   THEN REQUEST_SLEEP_SEC ELSE 0)
  /\ pc' = "write"

\* Faulty variant: the loop does not move on to the next key.
EndKeySameKeyMut(sleptSoFar) ==
  /\ processed' = processed
  /\ sleepSince' = sleptSoFar +
       (IF REQUEST_SLEEP_SEC > 0 THEN REQUEST_SLEEP_SEC ELSE 0)
  /\ pc' = "loop"

\* Faulty variant: no pause between one key and the next.
EndKeyNoSleepMut(sleptSoFar) ==
  /\ processed' = processed + 1
  /\ sleepSince' = sleptSoFar
  /\ pc' = IF processed + 1 = total THEN "write" ELSE "loop"

\* The end of one iteration of "for k in keys": processed += 1, the pause
\* before the next key, and on to the next key or to the refresh.
EndKey(sleptSoFar) ==
  /\ processed' = processed + 1
  /\ sleepSince' = sleptSoFar + (IF REQUEST_SLEEP_SEC > 0
                                   THEN REQUEST_SLEEP_SEC ELSE 0)
  /\ pc' = IF processed + 1 = total THEN "write" ELSE "loop"

\* main(), top of an iteration: parse_wb_key; a key it rejects is counted
\* and skipped, any other key enters fetch_goods_for_supply.
StartKey ==
  /\ pc = "loop"
  /\ LET k == keys[processed + 1]
         p == parse_wb_key(k.wb_key)
     IN IF p.exc
          THEN /\ errors' = errors + 1
               /\ outcome' = "badkey"
               /\ EndKey(sleepSince)
               /\ UNCHANGED <<fetchLocals, pageLog>>
          ELSE /\ id_value' = p.id_value
               /\ is_preorder' = p.is_preorder
               /\ offset' = 0 /\ attempt' = 1 /\ out' = <<>>
               /\ pageLog' = <<>>
               /\ pc' = "fetch"
               /\ UNCHANGED <<processed, errors, sleepSince, outcome>>
  /\ UNCHANGED <<config, src_rows, table, exitCode, runs, keys, collected,
                 goods, insertLocals, table0, lastReq, deletes, inserts>>

\* Faulty variant: a 500 is retried like a 429.
RetryAnyErrorMut(resp, att) ==
  CASE resp.kind = "exc" -> "raise"
    [] resp.status = 200 /\ resp.kind = "badjson" -> "raise"
    [] resp.status = 200 /\ resp.kind = "nonlist" -> "fatal"
    [] resp.status = 200 -> "page"
    [] resp.status \in {404, 410} -> "gone"
    [] resp.status \in {429, 500} /\ att < Len(backoffs) -> "retry"
    [] OTHER -> "fatal"

\* Faulty variant: 410 is not treated as "gone".
GoneIsFatalMut(resp, att) ==
  CASE resp.kind = "exc" -> "raise"
    [] resp.status = 200 /\ resp.kind = "badjson" -> "raise"
    [] resp.status = 200 /\ resp.kind = "nonlist" -> "fatal"
    [] resp.status = 200 -> "page"
    [] resp.status = 404 -> "gone"
    [] resp.status = 429 /\ att < Len(backoffs) -> "retry"
    [] OTHER -> "fatal"

\* What one response means to fetch_goods_for_supply:
\*   "page"   200 with a list: the page is appended
\*   "gone"   404 / 410: return []
\*   "retry"  429 with attempts left: next attempt of the same page
\*   "fatal"  fail(): 200 with a non-list, 429 on the last attempt, any
\*            other status
\*   "raise"  an exception of requests.get or resp.json()
Verdict(resp, att) ==
  CASE resp.kind = "exc" -> "raise"
    [] resp.status = 200 /\ resp.kind = "badjson" -> "raise"
    [] resp.status = 200 /\ resp.kind = "nonlist" -> "fatal"
    [] resp.status = 200 -> "page"
    [] resp.status \in {404, 410} -> "gone"
    [] resp.status = 429 /\ att < Len(backoffs) -> "retry"
    [] OTHER -> "fatal"

\* Faulty variant: a bare "except:", which catches SystemExit too.
CaughtBareExceptMut(v) == v \in {"raise", "fatal"}

\* Faulty variant: no try block around the fetch.
CaughtNothingMut(v) == FALSE

\* "except Exception" of main(): it catches what the fetch raises, not the
\* SystemExit of fail().
Caught(v) == v = "raise"

\* Faulty variant: the total received so far is compared, not the page.
LastPageByTotalMut(outLen, off) == outLen < limit

\* "if len(out) - offset < limit": the page just received was the last one.
LastPage(outLen, off) == outLen - off < limit

\* One HTTP request of fetch_goods_for_supply with everything that follows
\* it up to the next request: the backoff before it, the response, and then
\* the next attempt, the next page, the return to main() or the abort.
Request ==
  /\ pc = "fetch"
  /\ \E resp \in Responses(offset) :
       LET wait == backoffs[attempt]
           v == Verdict(resp, attempt)
           k == keys[processed + 1]
           newOut == out \o Page(offset, resp.n, runs)
       IN
       /\ lastReq' = [k |-> processed + 1, id_value |-> id_value,
                      is_preorder |-> is_preorder, limit |-> limit,
                      offset |-> offset, attempt |-> attempt, wait |-> wait,
                      slept |-> sleepSince + 10 * wait,
                      status |-> resp.status, kind |-> resp.kind,
                      n |-> resp.n]
       /\ \/ /\ v = "page" /\ ~LastPage(Len(newOut), offset)
             /\ out' = newOut
             /\ offset' = offset + limit
             /\ attempt' = 1
             /\ pageLog' = Append(pageLog, <<offset, resp.n>>)
             /\ sleepSince' = IF REQUEST_SLEEP_SEC > 0
                                THEN REQUEST_SLEEP_SEC ELSE 0
             /\ UNCHANGED <<pc, exitCode, processed, errors, collected,
                            goods, outcome>>
          \/ /\ v = "page" /\ LastPage(Len(newOut), offset)
             /\ out' = newOut
             /\ pageLog' = Append(pageLog, <<offset, resp.n>>)
             /\ goods' = newOut
             /\ collected' =
                  IF newOut /= <<>>
                    THEN collected \o normalize_goods(k.wb_key, is_preorder,
                                        k.supply_id, k.preorder_id, newOut)
                    ELSE collected
             /\ outcome' = "rows"
             /\ EndKey(0)
             /\ UNCHANGED <<exitCode, errors, offset, attempt>>
          \/ /\ v = "gone"
             /\ goods' = <<>>
             /\ outcome' = "gone"
             /\ EndKey(0)
             /\ UNCHANGED <<exitCode, errors, collected, offset, attempt,
                            out, pageLog>>
          \/ /\ v = "retry"
             /\ attempt' = attempt + 1
             /\ sleepSince' = 0
             /\ UNCHANGED <<pc, exitCode, processed, errors, collected,
                            goods, outcome, offset, out, pageLog>>
          \/ /\ Caught(v)
             /\ errors' = errors + 1
             /\ outcome' = "error"
             /\ EndKey(0)
             /\ UNCHANGED <<exitCode, collected, goods, offset, attempt,
                            out, pageLog>>
          \/ /\ v \in {"fatal", "raise"} /\ ~Caught(v)
             /\ pc' = "aborted"
             /\ exitCode' = 1
             /\ sleepSince' = 0
             /\ UNCHANGED <<processed, errors, collected, goods, outcome,
                            offset, attempt, out, pageLog>>
  /\ UNCHANGED <<config, src_rows, table, runs, keys, id_value, is_preorder,
                 insertLocals, table0, deletes, inserts>>

\* Faulty variant: the filter matches no row.
DeleteNothingMut(row) == FALSE

\* delete().neq("wb_key", ""): the rows whose wb_key is not the empty string.
Deleted(row) == row.wb_key /= <<>>

\* main(), "3) refresh": the delete of the destination's rows.
DeleteAll ==
  /\ pc = "write"
  /\ table' = SelectSeq(table, LAMBDA row : ~Deleted(row))
  /\ deletes' = deletes + 1
  /\ chunk_i' = 0
  /\ inserted' = 0
  /\ pc' = "insert"
  /\ UNCHANGED <<config, src_rows, exitCode, runs, mainLocals, fetchLocals,
                 table0, lastReq, sleepSince, inserts, pageLog, outcome>>

\* Faulty variant: the slice ends one row early.
ChunkShortMut(seq, i, size) == SubSeq(seq, i + 1, Min(i + size - 1, Len(seq)))

\* Faulty variant: every insert carries the whole list instead of the batch.
ChunkAllMut(seq, i, size) == seq

\* chunked(seq, size): the slice seq[i : i + size].
Chunk(seq, i, size) == SubSeq(seq, i + 1, Min(i + size, Len(seq)))

\* One pass of the insert loop: the next batch is inserted.
InsertBatch ==
  /\ pc = "insert"
  /\ chunk_i < Len(collected)
  /\ table' = table \o Chunk(collected, chunk_i, BatchSize)
  /\ inserted' = inserted + Len(Chunk(collected, chunk_i, BatchSize))
  /\ chunk_i' = chunk_i + BatchSize
  /\ inserts' = inserts + 1
  /\ UNCHANGED <<config, src_rows, pc, exitCode, runs, mainLocals,
                 fetchLocals, table0, lastReq, sleepSince, deletes, pageLog,
                 outcome>>

\* One pass of the insert loop whose insert call raises: nothing catches
\* it, the batch is not written and the process ends with a traceback.
InsertFails ==
  /\ pc = "insert"
  /\ chunk_i < Len(collected)
  /\ inserts' = inserts + 1
  /\ pc' = "crashed"
  /\ exitCode' = 1
  /\ UNCHANGED <<config, src_rows, table, runs, mainLocals, fetchLocals,
                 insertLocals, table0, lastReq, sleepSince, deletes, pageLog,
                 outcome>>

\* The insert loop is over: "Goods sync OK", main() returns.
Finish ==
  /\ pc = "insert"
  /\ chunk_i >= Len(collected)
  /\ pc' = "done"
  /\ exitCode' = 0
  /\ UNCHANGED <<config, src_rows, table, runs, mainLocals, fetchLocals,
                 insertLocals, history>>

\* The script is started again, in the same environment, on the destination
\* as the previous run left it.
Rerun ==
  /\ pc \in {"done", "aborted", "crashed"}
  /\ runs < MaxRuns
  /\ runs' = runs + 1
  /\ pc' = "start"
  /\ exitCode' = None
  /\ keys' = <<>> /\ processed' = 0 /\ errors' = 0
  /\ collected' = <<>> /\ goods' = <<>>
  /\ id_value' = None /\ is_preorder' = FALSE
  /\ offset' = 0 /\ attempt' = 0 /\ out' = <<>>
  /\ chunk_i' = 0 /\ inserted' = 0
  /\ table0' = table
  /\ lastReq' = NoReq /\ sleepSince' = 0
  /\ deletes' = 0 /\ inserts' = 0
  /\ pageLog' = <<>> /\ outcome' = "none"
  /\ UNCHANGED <<config, src_rows, table>>

\* The call of normalize_goods on the fetched list, by itself.
Normalize ==
  /\ pc = "normalize"
  /\ collected' = collected \o
       normalize_goods(keys[processed + 1].wb_key, is_preorder,
                       keys[processed + 1].supply_id,
                       keys[processed + 1].preorder_id, goods)
  /\ pc' = "normalized"
  /\ UNCHANGED <<config, src_rows, table, exitCode, runs, keys, processed,
                 errors, goods, fetchLocals, insertLocals, history>>

Next ==
  \/ ReadKeys \/ CapKeys \/ StartKey \/ Request
  \/ DeleteAll \/ InsertBatch \/ InsertFails \/ Finish

Spec == Init /\ [][Next]_vars

\* One run of the script as a sequential process: as long as a step is
\* left to take, the interpreter takes one (every request has a timeout,
\* every sleep is finite).
SpecFair == InitFair /\ [][Next]_vars /\ WF_vars(Next)

\* Key selection alone, over every shape of key row and of the two settings.
NextKeys == ReadKeys \/ CapKeys

SpecKeys == InitKeys /\ [][NextKeys]_vars

\* Successive runs of the script on one destination.
NextRerun == Next \/ Rerun

SpecRerun == InitRerun /\ [][NextRerun]_vars

\* normalize_goods alone, over every shape of raw object.
NextNormalize == Normalize

SpecNormalize == InitNormalize /\ [][NextNormalize]_vars


\* ================================================================= claims
\* A step that issues an HTTP request (lastReq records it).
IsRequest == lastReq' /= lastReq /\ lastReq'.k > 0

\* A step that writes to the destination or issues a write call.
IsWrite == deletes' > deletes \/ inserts' > inserts \/ table' /= table

\* The run is past key selection with no key selected.
EmptyRun == pc \notin {"start", "cap"} /\ total = 0

C2_WritesAfterAllFetches ==
  [][ /\ IsRequest => (deletes = 0 /\ inserts = 0 /\ table = table0)
      /\ IsWrite => (processed = total /\ pc \in {"write", "insert"}
                     /\ pc' \in {"insert", "crashed"}) ]_vars

\* Two keys were selected, the goods of the second were requested, and the
\* delete has been issued.
C2_Witness ==
  /\ total = 2 /\ lastReq.k = 2 /\ outcome = "rows"
  /\ deletes = 1 /\ pc = "insert"

\* ---- C3 ---------------------------------------------------------------
\* A response that is fatal by the claim's list: 200 with a JSON body that is
\* no list, 429 on the third attempt, or a status other than 200, 404, 410
\* and 429.
FatalOutcome(r) ==
  \/ r.status = 200 /\ r.kind = "nonlist"
  \/ r.status = 429 /\ r.attempt = 3
  \/ r.kind /= "exc" /\ r.status \notin {200, 404, 410, 429}

\* C3: a fatal fetch outcome aborts the process at once with exit code 1:
\* it is not counted as a per-key error, the key is not counted as
\* processed, no step follows the abort (no further key is fetched), and
\* the destination is as it was before the run.
C3_FatalAborts ==
  [][ /\ (IsRequest /\ FatalOutcome(lastReq')) =>
           /\ pc' = "aborted" /\ exitCode' = 1
           /\ errors' = errors /\ processed' = processed
           /\ collected' = collected
           /\ deletes' = 0 /\ inserts' = 0 /\ table' = table0
      /\ pc = "aborted" => FALSE ]_vars

\* The second of two keys got 429 on its third attempt and the run aborted
\* with the destination untouched.
C3_Witness ==
  /\ pc = "aborted" /\ exitCode = 1
  /\ total = 2 /\ processed = 1
  /\ lastReq.status = 429 /\ lastReq.attempt = 3
  /\ table = table0

\* ---- C4 ---------------------------------------------------------------
\* C4: every page gets at most 3 requests; the first has no backoff, the
\* second and third follow a 429 of the previous request of the same page
\* after a backoff of 2 s and 5 s; a 429 on the third request aborts.
C4_RetrySchedule ==
  [][ IsRequest =>
        /\ lastReq'.attempt \in 1..3
        /\ lastReq'.wait = <<0, 2, 5>>[lastReq'.attempt]
        /\ lastReq'.slept >= 10 * lastReq'.wait
        /\ lastReq'.attempt = 1 =>
             (lastReq.k /= lastReq'.k \/ lastReq.offset /= lastReq'.offset)
        /\ lastReq'.attempt > 1 =>
             /\ lastReq.status = 429
             /\ lastReq.k = lastReq'.k
             /\ lastReq.offset = lastReq'.offset
             /\ lastReq.attempt = lastReq'.attempt - 1
             /\ lastReq'.slept = 10 * lastReq'.wait
        /\ (lastReq'.status = 429 /\ lastReq'.attempt = 3) =>
             pc' = "aborted" ]_vars

\* The third attempt of a second page, made 5 s after a 429, was answered
\* with a page.
C4_Witness ==
  /\ lastReq.attempt = 3 /\ lastReq.wait = 5 /\ lastReq.slept = 50
  /\ lastReq.offset = limit
  /\ lastReq.status = 200 /\ lastReq.kind = "list"

\* ---- C5 ---------------------------------------------------------------
\* The pages of a page log, concatenated in the order they were requested.
RECURSIVE Concatenated(_, _)
Concatenated(log, r) ==
  IF log = <<>> THEN <<>>
  ELSE Page(log[1][1], log[1][2], r) \o Concatenated(Tail(log), r)

\* C5: the fetch starts at offset 0 with limit 1000; a page of exactly
\* limit rows is followed by a request at offset + limit, a shorter page
\* (an empty one too) ends the fetch, which returns the pages received,
\* concatenated in request order.
C5_Pagination ==
  [][ IsRequest =>
        /\ lastReq'.limit = 1000
        /\ lastReq.k /= lastReq'.k => lastReq'.offset = 0
        /\ (lastReq.k = lastReq'.k /\ lastReq'.attempt = 1) =>
             /\ lastReq.status = 200 /\ lastReq.kind = "list"
             /\ lastReq.n = 1000
             /\ lastReq'.offset = lastReq.offset + 1000
        /\ (lastReq'.status = 200 /\ lastReq'.kind = "list"
            /\ lastReq'.n = 1000) =>
             /\ pc' = "fetch" /\ attempt' = 1
             /\ offset' = lastReq'.offset + 1000
        /\ (lastReq'.status = 200 /\ lastReq'.kind = "list"
            /\ lastReq'.n < 1000) =>
             /\ pc' /= "fetch" /\ processed' = processed + 1
             /\ outcome' = "rows"
             /\ Len(pageLog') = lastReq'.offset \div 1000 + 1
             /\ goods' = Concatenated(pageLog', runs) ]_vars

\* A fetch returned a full page followed by a page of one row.
C5_Witness ==
  /\ outcome = "rows" /\ Len(goods) = limit + 1
  /\ lastReq.offset = limit /\ lastReq.n = 1
  /\ goods[limit + 1].barcode = limit + 1

\* ---- C6 ---------------------------------------------------------------
\* C6: a 404 or 410 on any page request makes the fetch return an empty
\* list: the error counter is unchanged, the shipment adds no row, and the
\* run goes on to the next key (or to the refresh after the last key).
C6_GoneIsEmpty ==
  [][ (IsRequest /\ lastReq'.status \in {404, 410}) =>
        /\ goods' = <<>>
        /\ errors' = errors
        /\ collected' = collected
        /\ processed' = processed + 1
        /\ pc' = (IF processed + 1 = total THEN "write" ELSE "loop")
        /\ exitCode' = None ]_vars

\* A 410 came on the second attempt of the second page of the first of two
\* keys; the run is at the next key with nothing collected and no error.
C6_Witness ==
  /\ lastReq.status = 410 /\ lastReq.offset = limit /\ lastReq.attempt = 2
  /\ outcome = "gone" /\ goods = <<>>
  /\ pc = "loop" /\ processed = 1 /\ errors = 0 /\ collected = <<>>

\* ---- C7 ---------------------------------------------------------------
\* wb_key starts with neither "S:" nor "P:".
UnknownPrefix(wb_key) ==
  \/ Len(wb_key) < 2
  \/ <<wb_key[1], wb_key[2]>> \notin {<<"S", ":">>, <<"P", ":">>}

\* C7: processing a key with an unknown prefix adds one to the error
\* counter, issues no HTTP request, collects no row and does not abort: the
\* run goes on to the next key, or to the refresh after the last key.
C7_UnknownPrefixCounted ==
  [][ (pc = "loop" /\ UnknownPrefix(keys[processed + 1].wb_key)) =>
        /\ errors' = errors + 1
        /\ lastReq' = lastReq
        /\ collected' = collected
        /\ processed' = processed + 1
        /\ pc' = (IF processed + 1 = total THEN "write" ELSE "loop")
        /\ exitCode' = None ]_vars

\* A run of two keys, the first with an unknown prefix, has ended normally:
\* one error, the rows of the second key collected and written.
C7_Witness ==
  /\ pc = "done" /\ exitCode = 0 /\ total = 2
  /\ UnknownPrefix(keys[1].wb_key)
  /\ errors = 1 /\ lastReq.k = 2
  /\ collected /= <<>> /\ table = collected

\* ---- C8 ---------------------------------------------------------------
\* The keys of rows whose updated_date satisfies keep, in the store's order.
Kept(rows, keep(_)) == SelectSeq(rows, LAMBDA k : keep(k.updated_date))

\* The local re-filter has run with the recency filter set to 7 days
\* (cutoff: day 3).
Refiltered == pc = "cap" /\ GOODS_UPDATED_DAYS = <<"7">>

\* C8 as stated: the local re-filter keeps the keys with a missing
\* updated_date and those at or after the cutoff, and drops only the keys
\* whose updated_date parses to a time before the cutoff.
C8_KeepsMissingDates ==
  Refiltered =>
    keys = Kept(src_rows, LAMBDA ud : ~(ud.kind = "iso" /\ ud.day < 3))

\* C8 amended: the local re-filter drops the keys whose updated_date is
\* missing (null or empty) and those whose updated_date parses to a time
\* before the cutoff; it keeps the keys at or after the cutoff and those
\* whose non-empty updated_date cannot be parsed or compared.
C8_DropsMissingDates ==
  Refiltered =>
    keys = Kept(src_rows, LAMBDA ud : /\ ud.kind \notin {"null", "empty"}
                                      /\ ~(ud.kind = "iso" /\ ud.day < 3))

\* The store returned a key without updated_date and a key dated on the
\* cutoff day; the re-filter kept the second only.
C8_Witness ==
  /\ Refiltered
  /\ Len(src_rows) = 2 /\ Len(keys) = 1
  /\ src_rows[1].updated_date.kind = "null"
  /\ src_rows[2].updated_date = Iso(3)
  /\ keys[1] = src_rows[2]

\* ---- C9 ---------------------------------------------------------------
\* The rows of a table with the wb_key of a selected key.
OfBatch(row) == \E i \in 1..Len(keys) : keys[i].wb_key = row.wb_key

\* The rows of t with the (wb_key, barcode) pair of row.
SamePair(t, row) ==
  {j \in 1..Len(t) :
     t[j].wb_key = row.wb_key /\ t[j].barcode = row.barcode}

CarriesKey(row, k) ==
  /\ row.wb_key = k.wb_key
  /\ row.supply_id = k.supply_id
  /\ row.preorder_id = k.preorder_id

\* C11: at every point of the run every collected row carries the wb_key,
\* supply_id and preorder_id of a selected key, and rows are added only by
\* the step in which the fetch of that key returns its list: one row per
\* raw object returned, in order, behind the rows collected before.
C11_RowsComeFromFetchedKeys ==
  [][ /\ (collected' /= collected \/ keys' /= keys) =>
           \A i \in 1..Len(collected') :
             \E j \in 1..Len(keys') : CarriesKey(collected'[i], keys'[j])
      /\ collected' /= collected =>
           /\ IsRequest
           /\ lastReq'.k = processed + 1
           /\ lastReq'.status = 200 /\ lastReq'.kind = "list"
           /\ outcome' = "rows" /\ exitCode' = None
           /\ Len(collected') = Len(collected) + Len(goods')
           /\ SubSeq(collected', 1, Len(collected)) = collected
           /\ \A i \in 1..Len(goods') :
                LET row == collected'[Len(collected) + i]
                IN /\ CarriesKey(row, keys[processed + 1])
                   /\ row.barcode = goods'[i].barcode
                   /\ row.quantity = goods'[i].quantity ]_vars

\* Rows of two keys are collected: a supply's row, then a preorder's.
C11_Witness ==
  /\ Len(collected) = 2 /\ total = 2
  /\ CarriesKey(collected[1], keys[1]) /\ ~collected[1].is_preorder
  /\ CarriesKey(collected[2], keys[2]) /\ collected[2].is_preorder
  /\ collected[2].preorder_id = 2 /\ collected[2].supply_id = None

\* ---- C12 --------------------------------------------------------------
\* C12: with a positive inter-request delay, a request that follows another
\* request of the run is preceded by a sleep: the delay before the next
\* page of the shipment and before the first request of the next shipment,
\* however the earlier shipment ended, and the backoff before a retry.
C12_SleepBetweenRequests ==
  [][ (IsRequest /\ lastReq.k > 0 /\ REQUEST_SLEEP_SEC > 0) =>
        /\ lastReq'.slept > 0
        /\ (lastReq'.k /= lastReq.k \/ lastReq'.offset /= lastReq.offset) =>
             lastReq'.slept >= REQUEST_SLEEP_SEC ]_vars

\* The first request of the second key was made one delay after the last
\* request of the first key, whose fetch had raised.
C12_Witness ==
  /\ REQUEST_SLEEP_SEC = 21
  /\ pc = "fetch" /\ outcome = "error"
  /\ lastReq.k = 2 /\ lastReq.attempt = 1 /\ lastReq.slept = 21

\* ---- C14 --------------------------------------------------------------
\* C14: an exception raised while fetching a shipment (by requests.get or
\* by resp.json()) adds one to the error counter; the shipment adds no row,
\* the pages it had received are dropped, the rows of earlier shipments
\* stay, and the run goes on to the next key or to the refresh.
C14_FetchErrorSkipsShipment ==
  [][ (IsRequest /\ lastReq'.kind \in {"exc", "badjson"}) =>
        /\ errors' = errors + 1
        /\ collected' = collected
        /\ processed' = processed + 1
        /\ pc' = (IF processed + 1 = total THEN "write" ELSE "loop")
        /\ exitCode' = None ]_vars

\* The second key's request for its second page raised after a full first
\* page; the run is at the refresh with the first key's row only.
C14_Witness ==
  /\ pc = "write" /\ total = 2 /\ errors = 1 /\ outcome = "error"
  /\ lastReq.k = 2 /\ lastReq.offset = limit /\ lastReq.kind = "exc"
  /\ Len(out) = limit
  /\ Len(collected) = 1 /\ CarriesKey(collected[1], keys[1])


\* ---- C15 --------------------------------------------------------------
\* C15: in a full-refresh run with at least one selected key, the delete is
\* issued once, before any insert, and empties the destination; every
\* insert that succeeds appends the next 1..500 collected rows in order, and
\* a batch shorter than 500 is the last one; when the run completes the
\* destination is the collected rows and inserted counts them.
C15_DeleteThenInsertBatches ==
  [][ (FULL_REFRESH /\ Len(keys') > 0) =>
        /\ deletes' > deletes =>
             deletes = 0 /\ inserts = 0 /\ table' = <<>>
        /\ inserts' > inserts => deletes = 1 /\ deletes' = 1
        /\ (inserts' > inserts /\ pc' /= "crashed") =>
             LET n == Len(table') - Len(table)
             IN /\ n >= 1 /\ n =< 500
                /\ n < 500 => Len(table') = Len(collected)
                /\ table' = SubSeq(collected, 1, Len(table'))
        /\ (pc' = "done" /\ pc /= "done") =>
             /\ deletes = 1
             /\ table = collected
             /\ inserted = Len(collected) ]_vars

\* A completed full refresh of 1001 rows: three inserts (500, 500, 1) after
\* the delete that removed the row the destination held before.
C15_Witness ==
  /\ FULL_REFRESH /\ pc = "done" /\ total = 1
  /\ table0 = <<StaleRow>>
  /\ deletes = 1 /\ inserts = 3
  /\ inserted = 1001 /\ Len(table) = 1001 /\ table = collected

\* ---- C16 --------------------------------------------------------------
\* The run is past the delete and has not completed its last insert: it is
\* about to insert a batch (and may be killed there) or an insert raised.
StoppedInRefresh ==
  /\ pc \in {"insert", "crashed"}
  /\ chunk_i < Len(collected)

\* C16 as stated: a run that stops between the delete and the completion
\* of the last insert leaves the destination empty.
C16_StoppedRunLeavesEmpty == StoppedInRefresh => table = <<>>

\* C16, amended: a run that stops between the delete and the completion of
\* the last insert leaves in the destination the batches inserted so far,
\* the leading rows of the collected list, a multiple of 500 of them, and
\* none of the earlier rows; a stopped run changes nothing any more.
C16_StoppedRunLeavesInsertedBatches ==
  [][ /\ StoppedInRefresh' =>
           /\ chunk_i' % 500 = 0
           /\ inserted' = chunk_i'
           /\ table' = SubSeq(collected', 1, chunk_i')
      /\ pc = "crashed" => table' = table ]_vars

\* The second insert of three raised: the first 500 rows are in the
\* destination.
C16_Witness ==
  /\ pc = "crashed" /\ exitCode = 1
  /\ inserts = 2 /\ Len(collected) = 1001
  /\ Len(table) = 500 /\ table = SubSeq(collected, 1, 500)


\* ---- C17 --------------------------------------------------------------
\* The values of MAX_KEYS that are integers, with the integer each denotes.
MaxKeysIntegers == {<<"1">>, <<"0">>, <<"-", "1">>}

MaxKeysValue ==
  CASE MAX_KEYS_ENV = <<"1">> -> 1
    [] MAX_KEYS_ENV = <<"0">> -> 0
    [] MAX_KEYS_ENV = <<"-", "1">> -> 0 - 1

\* The step that applies the cap to the filtered keys.
CapStep == pc = "cap" /\ pc' /= "cap"

\* after is the first m keys of before.
Leading(after, before, m) ==
  m \in 0..Len(before) /\ after = SubSeq(before, 1, m)

\* C17 as stated: with MAX_KEYS an integer n the processed keys are leading
\* keys of the filtered sequence, no more than n of them, all of them when
\* the sequence has at most n; otherwise every filtered key is processed.
C17_AtMostNKeys ==
  [][ CapStep =>
        IF MAX_KEYS_ENV \in MaxKeysIntegers
          THEN /\ \E m \in 0..Len(keys) : Leading(keys', keys, m)
               /\ Len(keys') =< MaxKeysValue
               /\ Len(keys) =< MaxKeysValue => keys' = keys
          ELSE keys' = keys ]_vars

\* C17, amended: with MAX_KEYS an integer n >= 0 the processed keys are
\* leading keys of the filtered sequence, no more than n of them, all of
\* them when the sequence has at most n; with a negative integer -m they
\* are the leading keys with the last m left out (none when the sequence
\* has at most m); otherwise every filtered key is processed.
C17_CapOfEitherSign ==
  [][ CapStep =>
        IF MAX_KEYS_ENV \in MaxKeysIntegers
          THEN IF MaxKeysValue >= 0
                 THEN /\ \E m \in 0..Len(keys) : Leading(keys', keys, m)
                      /\ Len(keys') =< MaxKeysValue
                      /\ Len(keys) =< MaxKeysValue => keys' = keys
                 ELSE IF Len(keys) =< 0 - MaxKeysValue
                        THEN keys' = <<>>
                        ELSE Leading(keys', keys, Len(keys) + MaxKeysValue)
          ELSE keys' = keys ]_vars

\* MAX_KEYS = "1" cut two filtered keys down to the first.
C17_Witness ==
  /\ pc = "loop" /\ MAX_KEYS_ENV = <<"1">> /\ GOODS_UPDATED_DAYS = <<>>
  /\ Len(src_rows) = 2
  /\ keys = <<src_rows[1]>>


\* ---- C13 --------------------------------------------------------------
\* The fields of a raw object that go into a row unchanged, each with the
\* row's column.
CopiedFields ==
  {<<"barcode", "barcode">>, <<"vendorCode", "vendor_code">>,
   <<"nmID", "nm_id">>, <<"needKiz", "need_kiz">>, <<"tnved", "tnved">>,
   <<"color", "color">>, <<"supplierBoxAmount", "supplier_box_amount">>,
   <<"quantity", "quantity">>,
   <<"readyForSaleQuantity", "ready_for_sale_quantity">>,
   <<"acceptedQuantity", "accepted_quantity">>,
   <<"unloadingQuantity", "unloading_quantity">>}

\* C13: normalize_goods returns one row per raw object, in order; a raw
\* object with techSize and no techsize gives its techSize as tech_size,
\* one with techsize and no techSize gives its techsize, and a field the
\* raw object omits is null in the row (a field it has is copied).
C13_OneRowPerRawObject ==
  pc = "normalized" =>
    /\ Len(collected) = Len(goods)
    /\ \A i \in 1..Len(goods) :
         LET r == goods[i]
             row == collected[i]
         IN /\ ("techSize" \in DOMAIN r /\ "techsize" \notin DOMAIN r) =>
                 row.tech_size = r["techSize"]
            /\ ("techsize" \in DOMAIN r /\ "techSize" \notin DOMAIN r) =>
                 row.tech_size = r["techsize"]
            /\ ("techSize" \notin DOMAIN r /\ "techsize" \notin DOMAIN r) =>
                 row.tech_size = None
            /\ \A p \in CopiedFields :
                 row[p[2]] = (IF p[1] \in DOMAIN r THEN r[p[1]] ELSE None)

\* Two raw objects were normalized: one with techSize and a barcode only,
\* then one with techsize and a quantity only.
C13_Witness ==
  /\ pc = "normalized" /\ Len(goods) = 2 /\ Len(collected) = 2
  /\ DOMAIN goods[1] = {"techSize", "barcode"} /\ goods[1]["techSize"] = 40
  /\ DOMAIN goods[2] = {"techsize", "quantity"}
  /\ collected[1].tech_size = 40 /\ collected[1].barcode = 7
  /\ collected[1].quantity = None
  /\ collected[2].tech_size = 41 /\ collected[2].barcode = None
  /\ collected[2].quantity = 3


\* ---- C18 --------------------------------------------------------------
\* The run is over: main() returned (exit 0), or the process ended with
\* exit code 1.
Ended ==
  \/ pc = "done" /\ exitCode = 0
  \/ pc \in {"aborted", "crashed"} /\ exitCode = 1

\* The request of this step comes after the previous request of the run in
\* the order of keys, then pages, then attempts.
LaterRequest ==
  \/ lastReq'.k > lastReq.k
  \/ lastReq'.k = lastReq.k /\ lastReq'.offset > lastReq.offset
  \/ /\ lastReq'.k = lastReq.k /\ lastReq'.offset = lastReq.offset
     /\ lastReq'.attempt = lastReq.attempt + 1

\* C18: every run ends, with exit code 0 or 1, when the keys are finitely
\* many and every shipment ends with a short page or a non-200 status; a
\* page costs at most 3 requests, the keys are taken once each in order,
\* and no key or page is requested again once it is completed.
C18_RunEnds ==
  /\ <>Ended
  /\ [][ /\ processed' \in {processed, processed + 1}
         /\ IsRequest =>
              /\ lastReq'.attempt \in 1..3
              /\ lastReq'.k = processed + 1
              /\ processed' = processed => pc' \in {"fetch", "aborted"}
              /\ LaterRequest
         /\ Ended => UNCHANGED vars ]_vars

\* A run over two keys ended after a retried request and a second page.
C18_Witness ==
  /\ Ended /\ pc = "done" /\ total = 2 /\ processed = 2
  /\ lastReq.k = 2 /\ lastReq.attempt = 3 /\ lastReq.offset = limit
  /\ Len(pageLog) = 2

====
